---------------------------- MODULE Spec2Model ----------------------------
(***************************************************************************)
(* The NTLM Challenge (type 2) message codec of go-ntlmssp, type2.go:      *)
(* the ChallengeMsg struct, its two construction paths (empty / decoded),  *)
(* Marshal, UnMarshal, the single-shot setters, the accessors and Reset.   *)
(*                                                                         *)
(* Bytes are the naturals 0..255, byte strings are sequences of bytes.    *)
(* A Go slice is modelled by its backing array up to its capacity (data)   *)
(* and its length (len): a slice expression s[a:b] on a slice is bounded   *)
(* by the capacity, not by the length.                                     *)
(* All integers of the model stay below 2^31.                              *)
(***************************************************************************)
EXTENDS Integers, Sequences, FiniteSets, TLC

VARIABLES
    cm,            \* the ChallengeMsg instance (struct fields, Payload, offset)
    st,            \* "start" (cm := ChallengeMsg{}), "live", or "fault" (a panic)
    origin,        \* "none" | "empty" (NewChallengeMsg(nil)) | "decoded"
    hostOrder,     \* byte order of the machine: "<" little, ">" big endian
    bs,            \* the buffer handed to NewChallengeMsg, while that call is
                   \* the last operation (NilBuf when nil, and afterwards)
    out,           \* the value returned by the last Marshal / accessor call
    lastOp,        \* name of the last operation that ran
    pre,           \* the message as it was before the last operation
    nameCalls,     \* SetTargetName calls that returned (did not panic)
    infoCalls,     \* SetTargetInfo calls that returned
    chalCalls,     \* SetServerChallenge calls that returned
    lastSet,       \* which of the two payload setters returned last
    resetAfterSet  \* Reset ran after a payload setter had returned

vars == << cm, st, origin, hostOrder, bs, out, lastOp, pre,
           nameCalls, infoCalls, chalCalls, lastSet, resetAfterSet >>

---------------------------------------------------------------------------
(* Bounds of the model *)

\* how many returning calls of one setter a run may make
MaxCalls == 2
\* bytes of slack a byte slice's capacity may have past its length
MaxSlack == 8

---------------------------------------------------------------------------
(* Program constants *)

ChallengeMsgPayloadOffset == 48

NEGOTIATE_UNICODE_CHARSET == 1
NEGOTIATE_TARGET_INFO == 8388608
NEGOTIATE_VERSION == 33554432

\* f & bit != 0, for a single-bit mask
HasFlag(f, bit) == (f \div bit) % 2 = 1

\* f | bit, for a single-bit mask
OrFlag(f, bit) == IF HasFlag(f, bit) THEN f ELSE f + bit

---------------------------------------------------------------------------
(* Byte-level helpers *)

Zeros(n) == [i \in 1..n |-> 0]

Rev(s) == [i \in 1..Len(s) |-> s[Len(s) + 1 - i]]

\* Go's s[a:b] on a sequence that stands for the whole backing array
Slice(s, a, b) == SubSeq(s, a + 1, b)

\* copy(dst, src): the first min(len) bytes of dst are overwritten
Copy(dst, src) ==
    [i \in 1..Len(dst) |-> IF i <= Len(src) THEN src[i] ELSE dst[i]]

\* math/bits.ReverseBytes16 and ReverseBytes32
ReverseBytes16(x) == ((x % 256) * 256) + ((x \div 256) % 256)

ReverseBytes32(x) ==
    ((x % 256) * 16777216) + (((x \div 256) % 256) * 65536)
        + (((x \div 65536) % 256) * 256) + ((x \div 16777216) % 256)

\* uint16(n)
Uint16(n) == n % 65536

\* the bytes of an n-byte unsigned integer as they lie in memory, which is
\* what (*[n]byte)(unsafe.Pointer(&x)) reads: host byte order
MemBytes(x, n) ==
    LET le == [i \in 1..n |-> (x \div (256 ^ (i - 1))) % 256]
    IN  IF hostOrder = "<" THEN le ELSE Rev(le)

\* bytes2Uint(bs, '<'): little-endian decoding of a byte string
RECURSIVE bytes2Uint(_)
bytes2Uint(b) ==
    IF Len(b) = 0 THEN 0 ELSE b[1] + (256 * bytes2Uint(Tail(b)))

\* encodeUTF16LE on single-byte (ASCII) text: each byte, then a zero byte
RECURSIVE encodeUTF16LE(_)
encodeUTF16LE(s) ==
    IF Len(s) = 0 THEN << >>
    ELSE << s[1], 0 >> \o encodeUTF16LE(Tail(s))

\* bytes2StringUTF16 on the encoding of single-byte text: the low bytes
bytes2StringUTF16(s) == [i \in 1..(Len(s) \div 2) |-> s[2 * i - 1]]

---------------------------------------------------------------------------
(* The struct *)

NtlmSignature == << 78, 84, 76, 77, 83, 83, 80, 0 >>

\* cm := ChallengeMsg{}
ZeroMsg ==
    [ Signature |-> Zeros(8), MessageType |-> 0,
      TargetNameLen |-> 0, TargetNameMaxLen |-> 0, TargetNameBufferOffset |-> 0,
      NegotiateFlags |-> 0, ServerChallenge |-> Zeros(8), Reserved |-> Zeros(8),
      TargetInfoLen |-> 0, TargetInfoMaxLen |-> 0, TargetInfoBufferOffset |-> 0,
      Payload |-> << >>, offset |-> 0 ]

\* the bs == nil branch of NewChallengeMsg
EmptyMsg ==
    [ ZeroMsg EXCEPT !.Signature = NtlmSignature,
                     !.MessageType = 2,
                     !.offset = ChallengeMsgPayloadOffset ]

NilBuf == [ nil |-> TRUE, data |-> << >>, len |-> 0 ]

NoOut == [ op |-> "none", endian |-> "-", fault |-> FALSE, bytes |-> << >> ]

---------------------------------------------------------------------------
(* Marshal *)

\* Marshal with the byte reversal of TargetInfoMaxLen left out
Marshal_SkipInfoMaxLen(m, endian) ==
    LET r == IF endian = ">"
             THEN [ m EXCEPT
                      !.MessageType = ReverseBytes32(m.MessageType),
                      !.NegotiateFlags = ReverseBytes32(m.NegotiateFlags),
                      !.TargetNameLen = ReverseBytes16(m.TargetNameLen),
                      !.TargetNameMaxLen = ReverseBytes16(m.TargetNameMaxLen),
                      !.TargetNameBufferOffset =
                          ReverseBytes32(m.TargetNameBufferOffset),
                      !.TargetInfoLen = ReverseBytes16(m.TargetInfoLen),
                      !.TargetInfoBufferOffset =
                          ReverseBytes32(m.TargetInfoBufferOffset) ]
             ELSE m
    IN  r.Signature
          \o MemBytes(r.MessageType, 4)
          \o MemBytes(r.TargetNameLen, 2)
          \o MemBytes(r.TargetNameMaxLen, 2)
          \o MemBytes(r.TargetNameBufferOffset, 4)
          \o MemBytes(r.NegotiateFlags, 4)
          \o r.ServerChallenge
          \o r.Reserved
          \o MemBytes(r.TargetInfoLen, 2)
          \o MemBytes(r.TargetInfoMaxLen, 2)
          \o MemBytes(r.TargetInfoBufferOffset, 4)
          \o r.Payload

\* ChallengeMsg.Marshal: the receiver is a copy, so the byte reversal of the
\* big-endian mode acts on the copy r and never on the caller's message
Marshal(m, endian) ==
    LET r == IF endian = ">"
             THEN [ m EXCEPT
                      !.MessageType = ReverseBytes32(m.MessageType),
                      !.NegotiateFlags = ReverseBytes32(m.NegotiateFlags),
                      !.TargetNameLen = ReverseBytes16(m.TargetNameLen),
                      !.TargetNameMaxLen = ReverseBytes16(m.TargetNameMaxLen),
                      !.TargetNameBufferOffset =
                          ReverseBytes32(m.TargetNameBufferOffset),
                      !.TargetInfoLen = ReverseBytes16(m.TargetInfoLen),
                      !.TargetInfoMaxLen = ReverseBytes16(m.TargetInfoMaxLen),
                      !.TargetInfoBufferOffset =
                          ReverseBytes32(m.TargetInfoBufferOffset) ]
             ELSE m
    IN  r.Signature
          \o MemBytes(r.MessageType, 4)
          \o MemBytes(r.TargetNameLen, 2)
          \o MemBytes(r.TargetNameMaxLen, 2)
          \o MemBytes(r.TargetNameBufferOffset, 4)
          \o MemBytes(r.NegotiateFlags, 4)
          \o r.ServerChallenge
          \o r.Reserved
          \o MemBytes(r.TargetInfoLen, 2)
          \o MemBytes(r.TargetInfoMaxLen, 2)
          \o MemBytes(r.TargetInfoBufferOffset, 4)
          \o r.Payload

\* the slice Marshal returns: built by append, its capacity is whatever the
\* runtime's growth policy left, spare zeroed bytes past the length
MarshalBuf(m, endian, spare) ==
    [ nil |-> FALSE,
      data |-> Marshal(m, endian) \o Zeros(spare),
      len |-> Len(Marshal(m, endian)) ]

---------------------------------------------------------------------------
(* UnMarshal and NewChallengeMsg *)

\* the payload length UnMarshal computes from the decoded header
PayloadLen(m) ==
    (IF m.TargetNameBufferOffset # 0 /\ m.TargetNameLen # 0
        THEN m.TargetNameLen ELSE 0)
    + (IF m.TargetInfoBufferOffset # 0 /\ m.TargetInfoLen # 0
        THEN m.TargetInfoLen ELSE 0)
    + (IF HasFlag(m.NegotiateFlags, NEGOTIATE_VERSION) THEN 8 ELSE 0)

\* the 48 header bytes into the fields, and the cursor
UnMarshalHeader(m, d) ==
    [ m EXCEPT
        !.Signature = Copy(m.Signature, Slice(d, 0, 8)),
        !.MessageType = bytes2Uint(Slice(d, 8, 12)),
        !.TargetNameLen = bytes2Uint(Slice(d, 12, 14)),
        !.TargetNameMaxLen = bytes2Uint(Slice(d, 14, 16)),
        !.TargetNameBufferOffset = bytes2Uint(Slice(d, 16, 20)),
        !.NegotiateFlags = bytes2Uint(Slice(d, 20, 24)),
        !.ServerChallenge = Copy(m.ServerChallenge, Slice(d, 24, 32)),
        !.Reserved = Copy(m.Reserved, Slice(d, 32, 40)),
        !.TargetInfoLen = bytes2Uint(Slice(d, 40, 42)),
        !.TargetInfoMaxLen = bytes2Uint(Slice(d, 42, 44)),
        !.TargetInfoBufferOffset = bytes2Uint(Slice(d, 44, 48)),
        !.offset = ChallengeMsgPayloadOffset ]

\* ChallengeMsg.UnMarshal on the slice b: every slice expression of it is
\* checked against the capacity Len(b.data); a failed one panics
UnMarshal(m, b) ==
    IF Len(b.data) < ChallengeMsgPayloadOffset
    THEN [ fault |-> TRUE, cm |-> m ]
    ELSE LET h == UnMarshalHeader(m, b.data)
             plen == PayloadLen(h)
         IN  IF ChallengeMsgPayloadOffset + plen > Len(b.data)
             THEN [ fault |-> TRUE, cm |-> h ]
             ELSE [ fault |-> FALSE,
                    cm |-> [ h EXCEPT !.Payload =
                               Slice(b.data, ChallengeMsgPayloadOffset,
                                     ChallengeMsgPayloadOffset + plen) ] ]

\* NewChallengeMsg(bs): the message handed back, or the panic
NewChallengeMsg(b) ==
    IF b.nil THEN [ fault |-> FALSE, cm |-> EmptyMsg ]
    ELSE UnMarshal(ZeroMsg, b)

---------------------------------------------------------------------------
(* Setters *)

\* SetTargetName that does not advance the cursor
SetTargetName_NoAdvance(m, tname) ==
    IF m.TargetNameLen # 0
    THEN [ fault |-> TRUE, cm |-> m ]
    ELSE LET uni == HasFlag(m.NegotiateFlags, NEGOTIATE_UNICODE_CHARSET)
             l == IF uni THEN Uint16(2 * Len(tname)) ELSE Uint16(Len(tname))
             enc == IF uni THEN encodeUTF16LE(tname) ELSE tname
         IN  [ fault |-> FALSE,
               cm |-> [ m EXCEPT !.TargetNameLen = l,
                                 !.TargetNameMaxLen = l,
                                 !.TargetNameBufferOffset = m.offset,
                                 !.Payload = @ \o enc ] ]

\* SetTargetName that appends the name unencoded under the unicode flag
SetTargetName_RawUnderUnicode(m, tname) ==
    IF m.TargetNameLen # 0
    THEN [ fault |-> TRUE, cm |-> m ]
    ELSE LET uni == HasFlag(m.NegotiateFlags, NEGOTIATE_UNICODE_CHARSET)
             l == IF uni THEN Uint16(2 * Len(tname)) ELSE Uint16(Len(tname))
         IN  [ fault |-> FALSE,
               cm |-> [ m EXCEPT !.TargetNameLen = l,
                                 !.TargetNameMaxLen = l,
                                 !.TargetNameBufferOffset = m.offset,
                                 !.Payload = @ \o tname,
                                 !.offset = @ + l ] ]

\* ChallengeMsg.SetTargetName
SetTargetName(m, tname) ==
    IF m.TargetNameLen # 0
    THEN [ fault |-> TRUE, cm |-> m ]
    ELSE LET uni == HasFlag(m.NegotiateFlags, NEGOTIATE_UNICODE_CHARSET)
             l == IF uni THEN Uint16(2 * Len(tname)) ELSE Uint16(Len(tname))
             enc == IF uni THEN encodeUTF16LE(tname) ELSE tname
         IN  [ fault |-> FALSE,
               cm |-> [ m EXCEPT !.TargetNameLen = l,
                                 !.TargetNameMaxLen = l,
                                 !.TargetNameBufferOffset = m.offset,
                                 !.Payload = @ \o enc,
                                 !.offset = @ + l ] ]

\* avIdsRev: attribute name to identifier, 0 for a name it does not hold
avIdsRev(k) ==
    CASE k = "MsvAvNbDomainName" -> 1
      [] k = "MsvAvNbComputerName" -> 2
      [] k = "MsvAvDnsDomainName" -> 3
      [] k = "MsvAvDnsComputerName" -> 4
      [] k = "MsvAvDnsTreeName" -> 5
      [] k = "MsvAvFlags" -> 6
      [] k = "MsvAvTimestamp" -> 7
      [] k = "MsvAvSingleHost" -> 8
      [] k = "MsvAvTargetName" -> 9
      [] k = "MsvChannelBindings" -> 10
      [] OTHER -> 0

\* the identifiers whose value is raw bytes (v.([]byte)), not text
IsRawId(id) == id = 6 \/ id = 7 \/ id = 8 \/ id = 10

\* one iteration of the range loop of SetTargetInfo: the bytes it appends,
\* or the panic of a failed type assertion
AvPairBytes(e) ==
    LET id == avIdsRev(e.k)
        length == IF IsRawId(id) THEN Len(e.v) ELSE Len(e.v) * 2
        lenBytes == << length % 256, (length \div 256) % 256 >>
    IN  IF id = 0 THEN [ fault |-> FALSE, bytes |-> << >> ]
        ELSE IF IsRawId(id) # (e.type = "bytes")
        THEN [ fault |-> TRUE, bytes |-> << >> ]
        ELSE [ fault |-> FALSE,
               bytes |-> << id, 0 >> \o lenBytes
                           \o (IF IsRawId(id) THEN e.v ELSE encodeUTF16LE(e.v)) ]

\* the whole loop over the entries in the order the map iteration takes them,
\* then the terminator
RECURSIVE AvLoop(_)
AvLoop(entries) ==
    IF Len(entries) = 0 THEN [ fault |-> FALSE, bytes |-> << 0, 0, 0, 0 >> ]
    ELSE LET h == AvPairBytes(entries[1])
             t == AvLoop(Tail(entries))
         IN  [ fault |-> h.fault \/ t.fault, bytes |-> h.bytes \o t.bytes ]

\* SetTargetInfo that does not record the offset
SetTargetInfo_NoOffset(m, tinfo) ==
    IF m.TargetInfoLen # 0
    THEN [ fault |-> TRUE, cm |-> m ]
    ELSE LET f == [ m EXCEPT !.NegotiateFlags =
                                OrFlag(@, NEGOTIATE_TARGET_INFO) ]
             av == AvLoop(tinfo)
             l == Uint16(Len(av.bytes))
         IN  IF av.fault
             THEN [ fault |-> TRUE, cm |-> f ]
             ELSE [ fault |-> FALSE,
                    cm |-> [ f EXCEPT !.TargetInfoLen = l,
                                      !.TargetInfoMaxLen = l,
                                      !.Payload = @ \o av.bytes,
                                      !.offset = @ + l ] ]

\* ChallengeMsg.SetTargetInfo; tinfo is the map in its iteration order
SetTargetInfo(m, tinfo) ==
    IF m.TargetInfoLen # 0
    THEN [ fault |-> TRUE, cm |-> m ]
    ELSE LET f == [ m EXCEPT !.NegotiateFlags =
                                OrFlag(@, NEGOTIATE_TARGET_INFO) ]
             av == AvLoop(tinfo)
             l == Uint16(Len(av.bytes))
         IN  IF av.fault
             THEN [ fault |-> TRUE, cm |-> f ]
             ELSE [ fault |-> FALSE,
                    cm |-> [ f EXCEPT !.TargetInfoLen = l,
                                      !.TargetInfoMaxLen = l,
                                      !.TargetInfoBufferOffset = m.offset,
                                      !.Payload = @ \o av.bytes,
                                      !.offset = @ + l ] ]

\* ChallengeMsg.SetServerChallenge; random stands for what rand.Read wrote
SetServerChallenge(m, challenge, random) ==
    IF challenge.nil
    THEN [ m EXCEPT !.ServerChallenge = random ]
    ELSE [ m EXCEPT !.ServerChallenge = Copy(@, challenge.data) ]

\* Reset that also clears the recorded lengths and offsets
Reset_ClearsFields(m) ==
    [ m EXCEPT !.Payload = << >>, !.offset = ChallengeMsgPayloadOffset,
               !.TargetNameLen = 0, !.TargetNameMaxLen = 0,
               !.TargetNameBufferOffset = 0,
               !.TargetInfoLen = 0, !.TargetInfoMaxLen = 0,
               !.TargetInfoBufferOffset = 0 ]

\* ChallengeMsg.Reset
Reset(m) ==
    [ m EXCEPT !.Payload = << >>, !.offset = ChallengeMsgPayloadOffset ]

---------------------------------------------------------------------------
(* Accessors *)

\* m.Payload[off-48 : off-48+length]. The capacity of an empty payload (nil,
\* or make([]byte, 0)) is 0; that of a payload grown by append is its length
\* plus the spare bytes the runtime left. off < 48 wraps in uint32 to an
\* index past any capacity.
PayloadSlice(m, off, length, spare) ==
    LET cap == IF Len(m.Payload) = 0 THEN 0 ELSE Len(m.Payload) + spare
        lo == off - ChallengeMsgPayloadOffset
        hi == lo + length
    IN  IF off < ChallengeMsgPayloadOffset \/ hi > cap
        THEN [ fault |-> TRUE, bytes |-> << >> ]
        ELSE [ fault |-> FALSE,
               bytes |-> Slice(m.Payload \o Zeros(spare), lo, hi) ]

\* ChallengeMsg.TargetName
TargetName(m, spare) ==
    IF m.TargetNameLen = 0 THEN [ fault |-> FALSE, bytes |-> << >> ]
    ELSE LET t == PayloadSlice(m, m.TargetNameBufferOffset,
                               m.TargetNameLen, spare)
         IN  IF ~t.fault /\ m.NegotiateFlags % 2 = 1
             THEN [ fault |-> FALSE, bytes |-> bytes2StringUTF16(t.bytes) ]
             ELSE t

\* ChallengeMsg.TargetInfo
TargetInfo(m, spare) ==
    IF m.TargetInfoLen = 0 THEN [ fault |-> FALSE, bytes |-> << >> ]
    ELSE PayloadSlice(m, m.TargetInfoBufferOffset, m.TargetInfoLen, spare)

\* ChallengeMsg.Version
Version(m, spare) ==
    IF HasFlag(m.NegotiateFlags, NEGOTIATE_VERSION)
    THEN PayloadSlice(m, ChallengeMsgPayloadOffset, 8, spare)
    ELSE [ fault |-> FALSE, bytes |-> << >> ]

---------------------------------------------------------------------------
(* Inputs *)

\* values a caller assigns to the exported NegotiateFlags field
FlagChoices ==
    { 0, NEGOTIATE_UNICODE_CHARSET, NEGOTIATE_VERSION,
      NEGOTIATE_VERSION + NEGOTIATE_UNICODE_CHARSET }

\* arguments of SetTargetName
TNames == { << >>, << 65 >>, << 68, 67 >> }

AvDomain == [ k |-> "MsvAvNbDomainName", type |-> "string", v |-> << 68 >> ]
AvTime == [ k |-> "MsvAvTimestamp", type |-> "bytes", v |-> << 1, 2 >> ]
AvUnknown == [ k |-> "NoSuchAttribute", type |-> "string", v |-> << 88 >> ]
AvIllTyped == [ k |-> "MsvAvFlags", type |-> "string", v |-> << 1 >> ]

\* arguments of SetTargetInfo, each map in the orders its iteration can take
TInfos ==
    { << >>, << AvDomain >>, << AvUnknown >>, << AvIllTyped >>,
      << AvDomain, AvTime >>, << AvTime, AvDomain >> }

\* arguments of SetServerChallenge: nil, or a slice shorter than the array
Challenges ==
    { [ nil |-> TRUE, data |-> << >> ],
      [ nil |-> FALSE, data |-> << 9, 8, 7, 6 >> ] }

\* what rand.Read may write
RandomChallenges ==
    { << 17, 18, 19, 20, 21, 22, 23, 24 >>, << 33, 34, 35, 36, 37, 38, 39, 40 >> }

\* little-endian wire bytes of an n-byte integer
WireLE(x, n) == [i \in 1..n |-> (x \div (256 ^ (i - 1))) % 256]

\* a 48-byte header as a peer puts it on the wire
WireHeader(nl, no, il, io, f) ==
    NtlmSignature \o WireLE(2, 4)
      \o WireLE(nl, 2) \o WireLE(nl, 2) \o WireLE(no, 4)
      \o WireLE(f, 4) \o << 1, 2, 3, 4, 5, 6, 7, 8 >> \o Zeros(8)
      \o WireLE(il, 2) \o WireLE(il, 2) \o WireLE(io, 4)

\* the bytes that follow the header in the receive buffer
WireTail == << 65, 66, 67, 68, 69, 70, 71, 72, 73, 74, 75, 76, 77, 78 >>

\* lengths of the slice handed to NewChallengeMsg
WireLens == { 0, 48, 50, 56, 62 }

\* length n and capacity c >= n of the slice handed to NewChallengeMsg
WireShapes ==
    { nc \in WireLens \X WireLens : nc[2] >= nc[1] /\ nc[2] <= nc[1] + MaxSlack }

\* byte buffers handed to NewChallengeMsg: a header and tail in a backing
\* array of capacity c, the slice cut to the length n
WireInputs ==
    { [ nil |-> FALSE,
        data |-> SubSeq(WireHeader(nl, no, il, io, f) \o WireTail, 1, nc[2]),
        len |-> nc[1] ] :
        nl \in { 0, 2 }, no \in { 0, 48 }, il \in { 0, 4 }, io \in { 0, 50 },
        f \in { 0, NEGOTIATE_VERSION },
        nc \in WireShapes }

---------------------------------------------------------------------------
(* The state machine *)

Init ==
    /\ cm = ZeroMsg
    /\ st = "start"
    /\ origin = "none"
    /\ hostOrder \in { "<", ">" }
    /\ bs = NilBuf
    /\ out = NoOut
    /\ lastOp = "none"
    /\ pre = ZeroMsg
    /\ nameCalls = 0
    /\ infoCalls = 0
    /\ chalCalls = 0
    /\ lastSet = "none"
    /\ resetAfterSet = FALSE

\* NewChallengeMsg(nil)
NewEmpty ==
    /\ st = "start"
    /\ cm' = NewChallengeMsg(NilBuf).cm
    /\ st' = "live"
    /\ origin' = "empty"
    /\ lastOp' = "NewChallengeMsg"
    /\ pre' = cm
    /\ UNCHANGED << hostOrder, bs, out, nameCalls, infoCalls, chalCalls,
                    lastSet, resetAfterSet >>

\* NewChallengeMsg(b) on a byte buffer: a message, or a panic and no message
NewDecoded ==
    /\ st = "start"
    /\ \E b \in WireInputs :
         LET r == NewChallengeMsg(b)
         IN  /\ bs' = b
             /\ cm' = IF r.fault THEN cm ELSE r.cm
             /\ st' = IF r.fault THEN "fault" ELSE "live"
    /\ origin' = "decoded"
    /\ lastOp' = "NewChallengeMsg"
    /\ pre' = cm
    /\ UNCHANGED << hostOrder, out, nameCalls, infoCalls, chalCalls,
                    lastSet, resetAfterSet >>

\* cm.NegotiateFlags = f, the caller's assignment to the exported field of
\* a message it builds, made before it populates the payload
SetNegotiateFlags ==
    /\ st = "live"
    /\ origin = "empty"
    /\ nameCalls = 0
    /\ infoCalls = 0
    /\ \E f \in FlagChoices :
         /\ f # cm.NegotiateFlags
         /\ cm' = [ cm EXCEPT !.NegotiateFlags = f ]
    /\ lastOp' = "SetNegotiateFlags"
    /\ pre' = cm
    /\ out' = NoOut
    /\ bs' = NilBuf
    /\ UNCHANGED << st, origin, hostOrder, nameCalls, infoCalls, chalCalls,
                    lastSet, resetAfterSet >>

DoSetTargetName ==
    /\ st = "live"
    /\ nameCalls < MaxCalls
    /\ \E t \in TNames :
         LET r == SetTargetName(cm, t)
         IN  /\ cm' = r.cm
             /\ st' = IF r.fault THEN "fault" ELSE "live"
             /\ nameCalls' = IF r.fault THEN nameCalls ELSE nameCalls + 1
             /\ lastSet' = IF r.fault THEN lastSet ELSE "name"
    /\ lastOp' = "SetTargetName"
    /\ pre' = cm
    /\ out' = NoOut
    /\ bs' = NilBuf
    /\ UNCHANGED << origin, hostOrder, infoCalls, chalCalls, resetAfterSet >>

DoSetTargetInfo ==
    /\ st = "live"
    /\ infoCalls < MaxCalls
    /\ \E t \in TInfos :
         LET r == SetTargetInfo(cm, t)
         IN  /\ cm' = r.cm
             /\ st' = IF r.fault THEN "fault" ELSE "live"
             /\ infoCalls' = IF r.fault THEN infoCalls ELSE infoCalls + 1
             /\ lastSet' = IF r.fault THEN lastSet ELSE "info"
    /\ lastOp' = "SetTargetInfo"
    /\ pre' = cm
    /\ out' = NoOut
    /\ bs' = NilBuf
    /\ UNCHANGED << origin, hostOrder, nameCalls, chalCalls, resetAfterSet >>

DoSetServerChallenge ==
    /\ st = "live"
    /\ chalCalls < MaxCalls
    /\ \E c \in Challenges :
         \E random \in (IF c.nil THEN RandomChallenges ELSE { Zeros(8) }) :
             cm' = SetServerChallenge(cm, c, random)
    /\ chalCalls' = chalCalls + 1
    /\ lastOp' = "SetServerChallenge"
    /\ pre' = cm
    /\ out' = NoOut
    /\ bs' = NilBuf
    /\ UNCHANGED << st, origin, hostOrder, nameCalls, infoCalls,
                    lastSet, resetAfterSet >>

DoReset ==
    /\ st = "live"
    /\ cm' = Reset(cm)
    /\ resetAfterSet' = (resetAfterSet \/ lastSet # "none")
    /\ lastOp' = "Reset"
    /\ pre' = cm
    /\ out' = NoOut
    /\ bs' = NilBuf
    /\ UNCHANGED << st, origin, hostOrder, nameCalls, infoCalls, chalCalls,
                    lastSet >>

DoMarshal ==
    /\ st = "live"
    /\ \E e \in { "<", ">" } :
         out' = [ op |-> "Marshal", endian |-> e, fault |-> FALSE,
                  bytes |-> Marshal(cm, e) ]
    /\ lastOp' = "Marshal"
    /\ pre' = cm
    /\ bs' = NilBuf
    /\ UNCHANGED << cm, st, origin, hostOrder, nameCalls, infoCalls,
                    chalCalls, lastSet, resetAfterSet >>

\* the three accessors; a slice out of range panics
Accessor(name, r) ==
    /\ out' = [ op |-> name, endian |-> "-", fault |-> r.fault, bytes |-> r.bytes ]
    /\ st' = IF r.fault THEN "fault" ELSE "live"
    /\ lastOp' = name
    /\ pre' = cm
    /\ bs' = NilBuf
    /\ UNCHANGED << cm, origin, hostOrder, nameCalls, infoCalls,
                    chalCalls, lastSet, resetAfterSet >>

DoTargetName ==
    /\ st = "live"
    /\ \E spare \in { 0, MaxSlack } : Accessor("TargetName", TargetName(cm, spare))

DoTargetInfo ==
    /\ st = "live"
    /\ \E spare \in { 0, MaxSlack } : Accessor("TargetInfo", TargetInfo(cm, spare))

DoVersion ==
    /\ st = "live"
    /\ \E spare \in { 0, MaxSlack } : Accessor("Version", Version(cm, spare))

Next ==
    \/ NewEmpty
    \/ NewDecoded
    \/ SetNegotiateFlags
    \/ DoSetTargetName
    \/ DoSetTargetInfo
    \/ DoSetServerChallenge
    \/ DoReset
    \/ DoMarshal
    \/ DoTargetName
    \/ DoTargetInfo
    \/ DoVersion

Spec == Init /\ [][Next]_vars

---------------------------------------------------------------------------
(* Properties *)

\* the header fields and the payload of two messages agree (the cursor is
\* not part of the wire format and is left out)
SameWire(a, b) ==
    /\ a.Signature = b.Signature
    /\ a.MessageType = b.MessageType
    /\ a.TargetNameLen = b.TargetNameLen
    /\ a.TargetNameMaxLen = b.TargetNameMaxLen
    /\ a.TargetNameBufferOffset = b.TargetNameBufferOffset
    /\ a.NegotiateFlags = b.NegotiateFlags
    /\ a.ServerChallenge = b.ServerChallenge
    /\ a.Reserved = b.Reserved
    /\ a.TargetInfoLen = b.TargetInfoLen
    /\ a.TargetInfoMaxLen = b.TargetInfoMaxLen
    /\ a.TargetInfoBufferOffset = b.TargetInfoBufferOffset
    /\ a.Payload = b.Payload

\* [off, off+length) lies in the payload of m
InPayload(m, off, length) ==
    /\ off >= ChallengeMsgPayloadOffset
    /\ off - ChallengeMsgPayloadOffset + length <= Len(m.Payload)

\* the byte ranges of target name and target info do not overlap
Disjoint(m) ==
    \/ m.TargetNameLen = 0
    \/ m.TargetInfoLen = 0
    \/ m.TargetNameBufferOffset + m.TargetNameLen <= m.TargetInfoBufferOffset
    \/ m.TargetInfoBufferOffset + m.TargetInfoLen <= m.TargetNameBufferOffset

\* a message built from an empty one by flags and setters alone
BuiltBySetters == origin = "empty" /\ st = "live" /\ ~resetAfterSet

(* C1: on a little-endian machine, every message built from an empty one by a
   choice of negotiate flags and calls of the three setters decodes from its
   little-endian encoding without a fault, to a message with the same header
   fields and payload, whatever spare capacity the encoded slice has. *)
C1_RoundTrip ==
    (BuiltBySetters /\ hostOrder = "<") =>
        \A spare \in 0..MaxSlack :
            LET r == NewChallengeMsg(MarshalBuf(cm, "<", spare))
            IN  ~r.fault /\ SameWire(r.cm, cm)

(* C2: no setter returns twice on one message: a second call of
   SetTargetName, of SetTargetInfo and of SetServerChallenge faults. *)
C2_SingleShot ==
    nameCalls <= 1 /\ infoCalls <= 1 /\ chalCalls <= 1

(* C3 as stated: once SetTargetName and SetTargetInfo have both been called,
   the offset of the field set second is strictly greater than that of the
   field set first, and the two byte ranges do not overlap. *)
C3_StrictlyIncreasing ==
    (st = "live" /\ nameCalls >= 1 /\ infoCalls >= 1) =>
        /\ lastSet = "info" =>
             cm.TargetInfoBufferOffset > cm.TargetNameBufferOffset
        /\ lastSet = "name" =>
             cm.TargetNameBufferOffset > cm.TargetInfoBufferOffset
        /\ Disjoint(cm)

(* C3 amended: once SetTargetName and SetTargetInfo have both been called and
   Reset has not run after either, the offset of the field set second is the
   offset of the field set first plus that field's recorded length (equal
   offsets when that length is zero), and the two ranges do not overlap. *)
C3_Contiguous ==
    (st = "live" /\ nameCalls >= 1 /\ infoCalls >= 1 /\ ~resetAfterSet) =>
        /\ lastSet = "info" =>
             cm.TargetInfoBufferOffset =
                 cm.TargetNameBufferOffset + cm.TargetNameLen
        /\ lastSet = "name" =>
             cm.TargetNameBufferOffset =
                 cm.TargetInfoBufferOffset + cm.TargetInfoLen
        /\ Disjoint(cm)

C3_Witness ==
    /\ st = "live" /\ nameCalls >= 1 /\ infoCalls >= 1 /\ ~resetAfterSet
    /\ lastSet = "info"
    /\ cm.TargetNameLen > 0
    /\ cm.TargetInfoBufferOffset > cm.TargetNameBufferOffset

\* the eight integer fields of the header, as [from, to) byte positions
IntegerFields ==
    { << 8, 12 >>, << 12, 14 >>, << 14, 16 >>, << 16, 20 >>, << 20, 24 >>,
      << 40, 42 >>, << 42, 44 >>, << 44, 48 >> }

\* the byte arrays of the header: signature, server challenge and reserved
ArrayFields == { << 0, 8 >>, << 24, 40 >> }

(* C4: the big-endian encoding has each of the eight integer fields
   byte-reversed in place and is otherwise, signature, server challenge,
   reserved and payload, equal to the little-endian encoding; both are
   48 + len(payload) bytes long; a Marshal call leaves the message as it was. *)
C4_BigEndianReversesIntegers ==
    st = "live" =>
        LET le == Marshal(cm, "<")
            be == Marshal(cm, ">")
            n == ChallengeMsgPayloadOffset + Len(cm.Payload)
        IN  /\ Len(le) = n /\ Len(be) = n
            /\ \A f \in IntegerFields :
                 Slice(be, f[1], f[2]) = Rev(Slice(le, f[1], f[2]))
            /\ \A f \in ArrayFields :
                 Slice(be, f[1], f[2]) = Slice(le, f[1], f[2])
            /\ Slice(be, ChallengeMsgPayloadOffset, n) = cm.Payload
            /\ Slice(le, ChallengeMsgPayloadOffset, n) = cm.Payload
            /\ lastOp = "Marshal" => cm = pre

C4_Witness ==
    /\ st = "live" /\ lastOp = "Marshal" /\ out.endian = ">"
    /\ cm.TargetNameLen # 0 /\ cm.TargetInfoLen # 0
    /\ cm.NegotiateFlags # 0
    /\ out.bytes # Marshal(cm, "<")

(* C5 as stated: in every state of a message, constructed empty or decoded,
   a length is zero if and only if its offset is zero. *)
C5_LengthZeroIffOffsetZero ==
    st = "live" =>
        /\ cm.TargetNameLen = 0 <=> cm.TargetNameBufferOffset = 0
        /\ cm.TargetInfoLen = 0 <=> cm.TargetInfoBufferOffset = 0

(* C5 amended: in a message built from an empty one, a non-zero length has a
   non-zero offset, and an offset is zero exactly as long as its setter has
   not been called. *)
C5_NonZeroLengthHasOffset ==
    origin = "empty" =>
        /\ cm.TargetNameLen # 0 => cm.TargetNameBufferOffset # 0
        /\ cm.TargetInfoLen # 0 => cm.TargetInfoBufferOffset # 0
        /\ cm.TargetNameBufferOffset = 0 <=> nameCalls = 0
        /\ cm.TargetInfoBufferOffset = 0 <=> infoCalls = 0

C5_Witness ==
    /\ origin = "empty" /\ st = "live"
    /\ nameCalls >= 1 /\ cm.TargetNameLen # 0
    /\ cm.TargetNameBufferOffset > ChallengeMsgPayloadOffset
    /\ cm.TargetInfoLen # 0

\* the slice b is shorter than the header, or than header plus the payload
\* its header announces
Truncated(b) ==
    \/ b.len < ChallengeMsgPayloadOffset
    \/ b.len < ChallengeMsgPayloadOffset
                 + PayloadLen(UnMarshalHeader(ZeroMsg, b.data))

(* C6: NewChallengeMsg on a truncated byte buffer ends in a fault and hands
   no message back. *)
C6_TruncatedFaults ==
    (lastOp = "NewChallengeMsg" /\ origin = "decoded" /\ Truncated(bs)) =>
        st = "fault"

(* C7: in a message with the version flag set, built from an empty one by
   SetTargetName and/or SetTargetInfo, the payload holds at least 8 bytes and
   the target-name and target-info ranges lie after the first 8 payload
   bytes, the version block. *)
C7_VersionBlockFirst ==
    (BuiltBySetters /\ HasFlag(cm.NegotiateFlags, NEGOTIATE_VERSION)
       /\ (nameCalls >= 1 \/ infoCalls >= 1)) =>
        /\ Len(cm.Payload) >= 8
        /\ cm.TargetNameLen # 0 =>
             cm.TargetNameBufferOffset >= ChallengeMsgPayloadOffset + 8
        /\ cm.TargetInfoLen # 0 =>
             cm.TargetInfoBufferOffset >= ChallengeMsgPayloadOffset + 8

(* C8: right after construction the cursor is 48 plus the length of the
   payload: 48 for an empty message, past the decoded payload for a decoded
   one. *)
C8_CursorPastPayload ==
    (st = "live" /\ lastOp = "NewChallengeMsg") =>
        cm.offset = ChallengeMsgPayloadOffset + Len(cm.Payload)

(* C9: Reset leaves the payload empty and the cursor at 48, and every other
   field as it was before the call. *)
C9_ResetFrame ==
    lastOp = "Reset" =>
        /\ cm.Payload = << >>
        /\ cm.offset = ChallengeMsgPayloadOffset
        /\ cm.Signature = pre.Signature
        /\ cm.MessageType = pre.MessageType
        /\ cm.NegotiateFlags = pre.NegotiateFlags
        /\ cm.ServerChallenge = pre.ServerChallenge
        /\ cm.Reserved = pre.Reserved
        /\ cm.TargetNameLen = pre.TargetNameLen
        /\ cm.TargetNameMaxLen = pre.TargetNameMaxLen
        /\ cm.TargetNameBufferOffset = pre.TargetNameBufferOffset
        /\ cm.TargetInfoLen = pre.TargetInfoLen
        /\ cm.TargetInfoMaxLen = pre.TargetInfoMaxLen
        /\ cm.TargetInfoBufferOffset = pre.TargetInfoBufferOffset

C9_Witness ==
    /\ lastOp = "Reset"
    /\ Len(pre.Payload) > 0 /\ pre.offset > ChallengeMsgPayloadOffset
    /\ cm.TargetNameLen # 0 /\ cm.TargetInfoLen # 0
    /\ pre.ServerChallenge # Zeros(8)

(* C10 as stated: in every state of a message built from an empty one by the
   setters and Reset, a non-zero target-name length has its range inside the
   payload, and so has a non-zero target-info length. *)
C10_RangesInPayload ==
    (origin = "empty" /\ st = "live") =>
        /\ cm.TargetNameLen # 0 =>
             InPayload(cm, cm.TargetNameBufferOffset, cm.TargetNameLen)
        /\ cm.TargetInfoLen # 0 =>
             InPayload(cm, cm.TargetInfoBufferOffset, cm.TargetInfoLen)

(* C10 amended: as long as Reset has not run after a setter, in a message
   built from an empty one the range of a non-zero target-name length and of
   a non-zero target-info length lies inside the payload, and neither
   TargetName() nor TargetInfo() faults. *)
C10_RangesInPayloadNoReset ==
    (origin = "empty" /\ ~resetAfterSet) =>
        /\ cm.TargetNameLen # 0 =>
             InPayload(cm, cm.TargetNameBufferOffset, cm.TargetNameLen)
        /\ cm.TargetInfoLen # 0 =>
             InPayload(cm, cm.TargetInfoBufferOffset, cm.TargetInfoLen)
        /\ lastOp \in { "TargetName", "TargetInfo" } => ~out.fault

C10_Witness ==
    /\ origin = "empty" /\ ~resetAfterSet /\ st = "live"
    /\ lastOp = "TargetInfo"
    /\ cm.TargetNameLen # 0
    /\ Len(out.bytes) > 4

=============================================================================
